---- MODULE Spec2Model ----
(***************************************************************************)
(* Model of the sbi-rs call encoding: the EcallMessage register contract   *)
(* (ecall.rs), the composition of the base catalogue with one vendor       *)
(* catalogue (vendor.rs), the Salus vendor catalogue (salus.rs) and the    *)
(* ecall_send invocation boundary (ecall.rs).                              *)
(*                                                                         *)
(* A u64 is a tuple of four 16-bit limbs, most significant first, so that  *)
(* the whole 64-bit domain (2^63, 2^64 - 1, ...) is representable.         *)
(***************************************************************************)
EXTENDS Integers, Sequences, FiniteSets, TLC

VARIABLES
    target,   \* build configuration: "riscv64_none" or "other"
    pc,       \* position of the single thread of control
    entry,    \* which decoder the current decode call entered
    args,     \* the slice handed to the decoder
    decoded,  \* what the decoder returned
    calls,    \* delegate decoders invoked by the composed decoder
    msg,      \* the call value handed to ecall_send
    regs,     \* registers a0..a7 around the ecall instruction
    seen,     \* the eight values the privileged side received
    handled,  \* the privileged side's decode of what it received
    traps,    \* privileged transfers performed by the current ecall_send
    ret,      \* the two values the privileged side handed back
    outcome   \* what ecall_send returned

vars == <<target, pc, entry, args, decoded, calls, msg, regs, seen, handled,
          traps, ret, outcome>>

----------------------------------------------------------------------------
(* Bounds of the model. *)

\* slots 3, 4 and 5 of a sampled frame range over 0..MaxJunk
MaxJunk == 1
\* sampled slices have up to MaxSliceLen elements
MaxSliceLen == 9

----------------------------------------------------------------------------
(* 64-bit values. *)

\* limbs are 16 bits wide
Limb == 2^16

U64(n) == <<0, 0, n \div Limb, n % Limb>>

Zero == U64(0)

U64Max == <<Limb - 1, Limb - 1, Limb - 1, Limb - 1>>

\* 2^64 - 2, i.e. -2 as a two's-complement bit pattern
U64MaxLess1 == <<Limb - 1, Limb - 1, Limb - 1, Limb - 2>>

\* 2^63, the smallest value whose i64 reading is negative
U64SignBit == <<Limb \div 2, 0, 0, 0>>

\* 2^48 + n: low limbs of n below a non-zero high limb
U64High(n) == <<1, 0, n \div Limb, n % Limb>>

\* unsigned comparison a <= b, as Rust's range patterns compare u64
LeU64(a, b) ==
    \/ a[1] < b[1]
    \/ a[1] = b[1] /\ a[2] < b[2]
    \/ a[1] = b[1] /\ a[2] = b[2] /\ a[3] < b[3]
    \/ a[1] = b[1] /\ a[2] = b[2] /\ a[3] = b[3] /\ a[4] <= b[4]

\* two's-complement negation of a bit pattern: complement, then add one
NegU64(v) ==
    LET c  == [i \in 1..4 |-> Limb - 1 - v[i]]
        s4 == c[4] + 1
        s3 == c[3] + s4 \div Limb
        s2 == c[2] + s3 \div Limb
        s1 == c[1] + s2 \div Limb
    IN  <<s1 % Limb, s2 % Limb, s3 % Limb, s4 % Limb>>

\* `v as i64`: the same bits read as a signed value (sign and magnitude)
AsI64(v) ==
    IF v[1] >= Limb \div 2
    THEN [neg |-> TRUE, mag |-> NegU64(v)]
    ELSE [neg |-> FALSE, mag |-> v]

I64(n) == IF n < 0 THEN [neg |-> TRUE, mag |-> U64(0 - n)]
                   ELSE [neg |-> FALSE, mag |-> U64(n)]

----------------------------------------------------------------------------
(* Outcomes. *)

Ok(v) == [tag |-> "Ok", value |-> v]

Err(e) == [tag |-> "Err", error |-> e]

Panicked == [tag |-> "Panic"]

None == [tag |-> "None"]

\* Result::map(f) with f an enum constructor
MapOk(r, variant) ==
    IF r.tag = "Ok" THEN Ok([tag |-> variant, m |-> r.value]) ELSE r

\* slice indexing args[i] (0-based) is in bounds
InBounds(s, i) == i < Len(s)

At(s, i) == s[i + 1]

----------------------------------------------------------------------------
(* Identifiers. *)

\* salus.rs: const EXT_SALUS_TEST: u64 = 0x09FFFFFF
EXT_SALUS_TEST == 167772159

\* crate::consts (base collaborator): 0x09000000 and 0x09FFFFFF
EXT_VENDOR_RANGE_START == 150994944

EXT_VENDOR_RANGE_END == 167772159

\* crate::consts (base collaborator): the legacy console call and the base
\* extension, both outside the vendor range
EXT_PUT_CHAR == 1

EXT_BASE == 16

\* the range pattern EXT_VENDOR_RANGE_START..=EXT_VENDOR_RANGE_END
InVendorRange(x) ==
    /\ LeU64(U64(EXT_VENDOR_RANGE_START), x)
    /\ LeU64(x, U64(EXT_VENDOR_RANGE_END))

----------------------------------------------------------------------------
(* The Salus vendor catalogue (salus.rs). *)

MemCopy(to, from, len) ==
    [tag |-> "MemCopy", to |-> to, from |-> from, len |-> len]

SalusTest(f) == [tag |-> "SalusTest", m |-> f]

\* mutant: destination and source taken from each other's slot
SalusTestFunction_from_regs_swapped(a) ==
    IF ~InBounds(a, 6) THEN Panicked
    ELSE IF At(a, 6) = Zero
         THEN Ok(MemCopy(At(a, 1), At(a, 0), At(a, 2)))
         ELSE Err("NotSupported")

\* mutant: an unknown function id is treated as unreachable
SalusTestFunction_from_regs_unreachable(a) ==
    IF ~InBounds(a, 6) THEN Panicked
    ELSE IF At(a, 6) = Zero
         THEN Ok(MemCopy(At(a, 0), At(a, 1), At(a, 2)))
         ELSE Panicked

\* SalusTestFunction::from_regs: match args[6] { 0 => MemCopy, _ => Err }
SalusTestFunction_from_regs(a) ==
    IF ~InBounds(a, 6) THEN Panicked
    ELSE IF At(a, 6) = Zero
         THEN Ok(MemCopy(At(a, 0), At(a, 1), At(a, 2)))
         ELSE Err("NotSupported")

\* SalusExtension::from_regs: match args[7] { EXT_SALUS_TEST => ..., _ => Err }
SalusExtension_from_regs(a) ==
    IF ~InBounds(a, 7) THEN Panicked
    ELSE IF At(a, 7) = U64(EXT_SALUS_TEST)
         THEN MapOk(SalusTestFunction_from_regs(a), "SalusTest")
         ELSE Err("NotSupported")

\* trait SbiFunction (base collaborator): an accessor the function does not
\* define returns zero
SbiFunction_default(i) == Zero

\* mutant: the length slot carries the source address
SalusTestFunction_a_len(f, i) ==
    CASE i = 0 -> f.to
      [] i = 1 -> f.from
      [] i = 2 -> f.from
      [] i = 6 -> Zero
      [] OTHER -> SbiFunction_default(i)

\* impl SbiFunction for SalusTestFunction: a0 = to, a1 = from, a2 = len, a6 = 0
SalusTestFunction_a(f, i) ==
    CASE i = 0 -> f.to
      [] i = 1 -> f.from
      [] i = 2 -> f.len
      [] i = 6 -> Zero
      [] OTHER -> SbiFunction_default(i)

\* mutant: a7 forwarded to the function like the other seven accessors
SalusExtension_a_forward(m, i) == SalusTestFunction_a(m.m, i)

\* impl EcallMessage for SalusExtension: a7 is the extension id, a0..a6 forward
SalusExtension_a(m, i) ==
    IF i = 7 THEN U64(EXT_SALUS_TEST) ELSE SalusTestFunction_a(m.m, i)

----------------------------------------------------------------------------
(* The base catalogue (crate::SbiMessage, base collaborator): a legacy call *)
(* with one argument and a standard call selected by a function id.        *)

PutChar(ch) == [tag |-> "PutChar", ch |-> ch]

BaseGetSpecVersion == [tag |-> "Base", f |-> "GetSpecificationVersion"]

SbiMessage_from_regs(a) ==
    IF ~InBounds(a, 7) THEN Panicked
    ELSE IF At(a, 7) = U64(EXT_PUT_CHAR) THEN Ok(PutChar(At(a, 0)))
    ELSE IF At(a, 7) = U64(EXT_BASE) /\ At(a, 6) = Zero THEN Ok(BaseGetSpecVersion)
    ELSE Err("NotSupported")

SbiMessage_a(m, i) ==
    CASE i = 7 -> IF m.tag = "PutChar" THEN U64(EXT_PUT_CHAR) ELSE U64(EXT_BASE)
      [] i = 0 -> IF m.tag = "PutChar" THEN m.ch ELSE Zero
      [] OTHER -> Zero

\* Error::from_code (base collaborator): the standard SBI error codes
Error_from_code(e) ==
    IF ~e.neg THEN "Failed"
    ELSE CASE e.mag = U64(2) -> "NotSupported"
           [] e.mag = U64(3) -> "InvalidParam"
           [] e.mag = U64(4) -> "Denied"
           [] e.mag = U64(5) -> "InvalidAddress"
           [] e.mag = U64(6) -> "AlreadyAvailable"
           [] OTHER -> "Failed"

\* From<SbiReturn> for Result<u64> (base collaborator)
SbiReturn_into(r) ==
    IF r.error_code = I64(0) THEN Ok(r.return_value)
    ELSE Err(Error_from_code(r.error_code))

\* mutant: the two result registers taken for each other
EcallMessage_result_swapped(a0, a1) ==
    SbiReturn_into([error_code |-> AsI64(a1), return_value |-> a0])

\* EcallMessage::result, the default implementation
EcallMessage_result(a0, a1) ==
    SbiReturn_into([error_code |-> AsI64(a0), return_value |-> a1])

\* SbiMessage's own result policy (base collaborator): a legacy call returns
\* nothing in a1 and an implementation-defined non-zero a0 on failure
SbiMessage_result(m, a0, a1) ==
    IF m.tag = "PutChar"
    THEN (IF AsI64(a0) = I64(0) THEN Ok(Zero) ELSE Err("Failed"))
    ELSE EcallMessage_result(a0, a1)

----------------------------------------------------------------------------
(* The composed type VendorSbiMessage<SalusExtension> (vendor.rs). *)

Sbi(m) == [tag |-> "Sbi", m |-> m]

Vendor(m) == [tag |-> "Vendor", m |-> m]

\* mutant: the end of the vendor range taken as exclusive
VendorSbiMessage_from_regs_exclusive(a) ==
    IF ~InBounds(a, 7) THEN [res |-> Panicked, calls |-> <<>>]
    ELSE IF InVendorRange(At(a, 7)) /\ At(a, 7) # U64(EXT_VENDOR_RANGE_END)
         THEN [res |-> MapOk(SalusExtension_from_regs(a), "Vendor"),
               calls |-> <<"V::from_regs">>]
         ELSE [res |-> MapOk(SbiMessage_from_regs(a), "Sbi"),
               calls |-> <<"SbiMessage::from_regs">>]

\* mutant: a frame the vendor decoder rejects is retried against the base
VendorSbiMessage_from_regs_fallthrough(a) ==
    IF ~InBounds(a, 7) THEN [res |-> Panicked, calls |-> <<>>]
    ELSE IF InVendorRange(At(a, 7))
         THEN IF SalusExtension_from_regs(a).tag = "Ok"
              THEN [res |-> MapOk(SalusExtension_from_regs(a), "Vendor"),
                    calls |-> <<"V::from_regs">>]
              ELSE [res |-> MapOk(SbiMessage_from_regs(a), "Sbi"),
                    calls |-> <<"V::from_regs", "SbiMessage::from_regs">>]
         ELSE [res |-> MapOk(SbiMessage_from_regs(a), "Sbi"),
               calls |-> <<"SbiMessage::from_regs">>]

\* VendorSbiMessage::from_regs: the result and the delegate decoders invoked
VendorSbiMessage_from_regs(a) ==
    IF ~InBounds(a, 7) THEN [res |-> Panicked, calls |-> <<>>]
    ELSE IF InVendorRange(At(a, 7))
         THEN [res |-> MapOk(SalusExtension_from_regs(a), "Vendor"),
               calls |-> <<"V::from_regs">>]
         ELSE [res |-> MapOk(SbiMessage_from_regs(a), "Sbi"),
               calls |-> <<"SbiMessage::from_regs">>]

\* impl EcallMessage for VendorSbiMessage: a0..a7 forward to the wrapped side
VendorSbiMessage_a(v, i) ==
    IF v.tag = "Sbi" THEN SbiMessage_a(v.m, i) ELSE SalusExtension_a(v.m, i)

\* mutant: result decoding forwarded to the wrapped side like the accessors
VendorSbiMessage_result_forward(v, a0, a1) ==
    IF v.tag = "Sbi" THEN SbiMessage_result(v.m, a0, a1)
                     ELSE EcallMessage_result(a0, a1)

\* the impl defines no result: the trait's default applies to both variants
VendorSbiMessage_result(v, a0, a1) == EcallMessage_result(a0, a1)

----------------------------------------------------------------------------
(* Sampled inputs. *)

\* slot 7: both edges of the vendor range and their outer neighbours, the
\* base identifiers, the extremes, and a value above 2^32 whose low half
\* lies in the vendor range
ExtIds ==
    { Zero, U64(EXT_PUT_CHAR), U64(EXT_BASE),
      U64(EXT_VENDOR_RANGE_START - 1), U64(EXT_VENDOR_RANGE_START),
      U64(EXT_SALUS_TEST - 1), U64(EXT_SALUS_TEST),
      U64(EXT_VENDOR_RANGE_END + 1), U64High(EXT_SALUS_TEST), U64Max }

\* slot 6
FuncIds == { Zero, U64(99), U64High(0) }

\* slots 0, 1 and 2
ToVals == { U64(4096), U64Max }

FromVals == { U64(8192), U64(4096) }

LenVals == { U64(64), Zero }

JunkVals == { U64(n) : n \in 0..MaxJunk }

Frames ==
    { <<t, f, l, j3, j4, j5, fid, eid>> :
        t \in ToVals, f \in FromVals, l \in LenVals,
        j3 \in JunkVals, j4 \in JunkVals, j5 \in JunkVals,
        fid \in FuncIds, eid \in ExtIds }

SliceLens == 0..MaxSliceLen

\* the first n elements of f, zero-filled beyond its end
Resize(f, n) == [i \in 1..n |-> IF i <= Len(f) THEN f[i] ELSE Zero]

\* call values an application can construct
Messages ==
    { Vendor(SalusTest(MemCopy(t, f, l))) :
        t \in ToVals, f \in FromVals, l \in LenVals }
    \cup { Sbi(PutChar(c)) : c \in {U64(65), U64Max} }
    \cup { Sbi(BaseGetSpecVersion) }

\* values the privileged side may leave in a0 and a1
RetCodes == { Zero, U64(1), U64Max, U64MaxLess1, U64SignBit }

RetVals == { Zero, U64(42), U64Max }

Targets == { "riscv64_none", "other" }

----------------------------------------------------------------------------
(* ecall_send (ecall.rs). *)

\* mutant: the function id and the extension id loaded into each other's
\* register
ecall_operands_swapped(m) ==
    [i \in 1..8 |-> VendorSbiMessage_a(m, CASE i = 7 -> 7 [] i = 8 -> 6
                                               [] OTHER -> i - 1)]

\* the asm! operands: a0..a7 loaded from msg.a0()..msg.a7()
ecall_operands(m) == [i \in 1..8 |-> VendorSbiMessage_a(m, i - 1)]

\* mutant: the unsupported build reports an error instead
ecall_send_unsupported_err(m) == Err("NotSupported")

\* ecall_send when not(riscv64 and bare metal): panic!("ecall_send called")
ecall_send_unsupported(m) == Panicked

----------------------------------------------------------------------------
(* The state machine. *)

Init ==
    /\ target \in Targets
    /\ pc = "idle"
    /\ entry = "none"
    /\ args = <<>>
    /\ decoded = None
    /\ calls = <<>>
    /\ msg = None
    /\ regs = <<>>
    /\ seen = <<>>
    /\ handled = None
    /\ traps = 0
    /\ ret = <<>>
    /\ outcome = None

SendUnchanged == UNCHANGED <<msg, regs, seen, handled, traps, ret, outcome>>

\* VendorSbiMessage::<SalusExtension>::from_regs(a) on a slice a
DecodeComposed ==
    /\ pc = "idle"
    /\ \E f \in Frames, n \in SliceLens :
       LET a == Resize(f, n)
           r == VendorSbiMessage_from_regs(a)
       IN
        /\ entry' = "VendorSbiMessage::from_regs"
        /\ args' = a
        /\ decoded' = r.res
        /\ calls' = r.calls
        /\ pc' = IF r.res = Panicked THEN "panicked" ELSE "decoded"
    /\ UNCHANGED target
    /\ SendUnchanged

\* SalusExtension::from_regs(a), called directly
DecodeSalus ==
    /\ pc = "idle"
    /\ \E f \in Frames, n \in SliceLens :
       LET a == Resize(f, n)
           r == SalusExtension_from_regs(a)
       IN
        /\ entry' = "SalusExtension::from_regs"
        /\ args' = a
        /\ decoded' = r
        /\ calls' = <<>>
        /\ pc' = IF r = Panicked THEN "panicked" ELSE "decoded"
    /\ UNCHANGED target
    /\ SendUnchanged

\* SalusTestFunction::from_regs(a), called directly
DecodeTest ==
    /\ pc = "idle"
    /\ \E f \in Frames, n \in SliceLens :
       LET a == Resize(f, n)
           r == SalusTestFunction_from_regs(a)
       IN
        /\ entry' = "SalusTestFunction::from_regs"
        /\ args' = a
        /\ decoded' = r
        /\ calls' = <<>>
        /\ pc' = IF r = Panicked THEN "panicked" ELSE "decoded"
    /\ UNCHANGED target
    /\ SendUnchanged

\* the decoded call is passed on: ecall_send(&decoded)
Forward ==
    /\ pc = "decoded"
    /\ entry = "VendorSbiMessage::from_regs"
    /\ decoded.tag = "Ok"
    /\ msg' = decoded.value
    /\ pc' = "call"
    /\ UNCHANGED <<target, entry, args, decoded, calls, regs, seen, handled,
                   traps, ret, outcome>>

\* an application constructs a call value: ecall_send(&v)
Construct ==
    /\ pc = "idle"
    /\ \E v \in Messages : msg' = v
    /\ pc' = "call"
    /\ UNCHANGED <<target, entry, args, decoded, calls, regs, seen, handled,
                   traps, ret, outcome>>

\* riscv64 bare metal: the operands of the asm! block are evaluated
EcallLoad ==
    /\ pc = "call"
    /\ target = "riscv64_none"
    /\ regs' = ecall_operands(msg)
    /\ pc' = "ecall"
    /\ UNCHANGED <<target, entry, args, decoded, calls, msg, seen, handled,
                   traps, ret, outcome>>

\* the ecall instruction: the privileged side receives a0..a7, decodes them
\* and leaves two values in a0 and a1
Ecall ==
    /\ pc = "ecall"
    /\ \E r0 \in RetCodes, r1 \in RetVals :
        /\ ret' = <<r0, r1>>
        /\ regs' = [regs EXCEPT ![1] = r0, ![2] = r1]
    /\ traps' = traps + 1
    /\ seen' = regs
    /\ handled' = VendorSbiMessage_from_regs(regs).res
    /\ pc' = "resumed"
    /\ UNCHANGED <<target, entry, args, decoded, calls, msg, outcome>>

\* msg.result(a0, a1)
EcallResult ==
    /\ pc = "resumed"
    /\ outcome' = VendorSbiMessage_result(msg, regs[1], regs[2])
    /\ pc' = "returned"
    /\ UNCHANGED <<target, entry, args, decoded, calls, msg, regs, seen,
                   handled, traps, ret>>

\* any other build: ecall_send panics
EcallUnsupported ==
    /\ pc = "call"
    /\ target # "riscv64_none"
    /\ outcome' = ecall_send_unsupported(msg)
    /\ pc' = IF ecall_send_unsupported(msg) = Panicked THEN "panicked"
                                                       ELSE "returned"
    /\ UNCHANGED <<target, entry, args, decoded, calls, msg, regs, seen,
                   handled, traps, ret>>

\* the operation's values go out of scope
Drop ==
    /\ pc \in {"decoded", "returned"}
    /\ pc' = "idle"
    /\ entry' = "none"
    /\ args' = <<>>
    /\ decoded' = None
    /\ calls' = <<>>
    /\ msg' = None
    /\ regs' = <<>>
    /\ seen' = <<>>
    /\ handled' = None
    /\ traps' = 0
    /\ ret' = <<>>
    /\ outcome' = None
    /\ UNCHANGED target

Next ==
    \/ DecodeComposed
    \/ DecodeSalus
    \/ DecodeTest
    \/ Forward
    \/ Construct
    \/ EcallLoad
    \/ Ecall
    \/ EcallResult
    \/ EcallUnsupported
    \/ Drop

Spec == Init /\ [][Next]_vars

----------------------------------------------------------------------------
(* Properties. *)

OnTarget == target = "riscv64_none"

ComposedDecoded ==
    pc = "decoded" /\ entry = "VendorSbiMessage::from_regs"

\* the eight accessor values of the message in flight, a0 first
MsgFrame ==
    << VendorSbiMessage_a(msg, 0), VendorSbiMessage_a(msg, 1),
       VendorSbiMessage_a(msg, 2), VendorSbiMessage_a(msg, 3),
       VendorSbiMessage_a(msg, 4), VendorSbiMessage_a(msg, 5),
       VendorSbiMessage_a(msg, 6), VendorSbiMessage_a(msg, 7) >>

\* C1: round trip. Whenever the eight slots of a call value (either variant)
\* have been handed to VendorSbiMessage::from_regs, the decode is Ok of a
\* value equal to the one that was encoded.
C1_RoundTrip ==
    pc \in {"resumed", "returned"} => handled = Ok(msg)

C1_Witness ==
    /\ pc = "resumed"
    /\ args = <<>>
    /\ msg = Vendor(SalusTest(MemCopy(U64Max, U64(8192), U64(64))))
    /\ handled = Ok(msg)

\* C2: range disjointness. A composed decode invokes exactly one delegate,
\* chosen by slot 7 alone: the vendor decoder for START <= slot7 <= END, the
\* base decoder for every other value, START - 1 and END + 1 included, also
\* when the base decoder answers NotSupported.
C2_RangeDisjoint ==
    ComposedDecoded =>
        /\ Len(calls) = 1
        /\ ( /\ LeU64(U64(EXT_VENDOR_RANGE_START), args[8])
             /\ LeU64(args[8], U64(EXT_VENDOR_RANGE_END)) )
           => calls = <<"V::from_regs">>
        /\ ( \/ ~LeU64(U64(EXT_VENDOR_RANGE_START), args[8])
             \/ ~LeU64(args[8], U64(EXT_VENDOR_RANGE_END)) )
           => calls = <<"SbiMessage::from_regs">>
        /\ args[8] \in {U64(EXT_VENDOR_RANGE_START), U64(EXT_VENDOR_RANGE_END)}
           => calls = <<"V::from_regs">>
        /\ args[8] \in {U64(EXT_VENDOR_RANGE_START - 1),
                        U64(EXT_VENDOR_RANGE_END + 1),
                        U64High(EXT_SALUS_TEST)}
           => calls = <<"SbiMessage::from_regs">>

C2_Witness ==
    /\ ComposedDecoded
    /\ args[8] = U64(EXT_VENDOR_RANGE_START - 1)
    /\ decoded = Err("NotSupported")
    /\ calls = <<"SbiMessage::from_regs">>

\* C3: totality. Each of the three decoders, given a register frame (a slice
\* holding the eight slots), returns Ok or Err(NotSupported) and never
\* panics, whatever the slots hold.
C3_Total ==
    /\ (entry # "none" /\ Len(args) >= 8) =>
          (decoded.tag = "Ok" \/ decoded = Err("NotSupported"))
    /\ pc \in {"resumed", "returned"} =>
          (handled.tag = "Ok" \/ handled = Err("NotSupported"))

C3_Witness ==
    /\ entry = "SalusTestFunction::from_regs"
    /\ Len(args) = 8
    /\ args[7] = U64(99)
    /\ args[8] = U64Max
    /\ decoded = Err("NotSupported")

\* C4: result mapping. a0 = 0 gives success carrying exactly a1; every other
\* a0 gives an error, never success, and the error is the one mapped from a0
\* read as a signed code (2^64 - 1 is code -1), whatever a1 holds.
C4_ResultMapping ==
    pc = "returned" =>
        /\ ret[1] = Zero => outcome = Ok(ret[2])
        /\ ret[1] # Zero =>
              /\ outcome.tag = "Err"
              /\ outcome = Err(Error_from_code(AsI64(ret[1])))
        /\ ret[1] = U64Max => outcome = Err(Error_from_code(I64(-1)))
        /\ ret[1] = U64MaxLess1 => outcome = Err(Error_from_code(I64(-2)))
        /\ ret[1] = U64(1) => outcome = Err(Error_from_code(I64(1)))

C4_Witness ==
    /\ pc = "returned"
    /\ ret = <<U64Max, U64(42)>>
    /\ outcome = Err(Error_from_code(I64(-1)))

\* C5: no fall-through. A frame whose slot 7 lies in the vendor range decodes
\* to NotSupported unless slot7 = 0x09FFFFFF and slot6 = 0, and the base
\* decoder is not tried.
C5_NoFallThrough ==
    ( /\ ComposedDecoded
      /\ InVendorRange(args[8])
      /\ ~(args[8] = U64(EXT_SALUS_TEST) /\ args[7] = Zero) )
    => ( decoded = Err("NotSupported") /\ calls = <<"V::from_regs">> )

C5_Witness ==
    /\ ComposedDecoded
    /\ args[8] = U64(EXT_SALUS_TEST)
    /\ args[7] = U64(99)
    /\ decoded = Err("NotSupported")

\* C6: one synchronous trap. On the bare-metal target ecall_send performs
\* exactly one privileged transfer, which carries msg.a0()..msg.a7() in slots
\* 0-7 and hands back two values; the result is decoded from those two
\* values, and only after the transfer.
C6_OneTrap ==
    /\ traps <= 1
    /\ pc = "ecall" => (traps = 0 /\ outcome = None /\ regs = MsgFrame)
    /\ pc = "resumed" =>
          (traps = 1 /\ outcome = None /\ seen = MsgFrame /\ Len(ret) = 2)
    /\ pc = "returned" =>
          /\ traps = 1
          /\ seen = MsgFrame
          /\ Len(ret) = 2
          /\ outcome = VendorSbiMessage_result(msg, ret[1], ret[2])
    /\ (OnTarget /\ outcome # None) => (pc = "returned" /\ traps = 1)

C6_Witness ==
    /\ pc = "returned"
    /\ traps = 1
    /\ msg = Sbi(PutChar(U64(65)))
    /\ seen[8] = U64(EXT_PUT_CHAR)
    /\ outcome.tag = "Err"

\* C7: on any build other than riscv64 bare metal a call of ecall_send
\* panics and returns no outcome; decode failures and non-zero result codes
\* are returned as Err and do not panic.
C7_OnlyFatal ==
    /\ ~OnTarget =>
          /\ traps = 0
          /\ outcome \in {None, Panicked}
          /\ pc # "returned"
          /\ (msg # None /\ pc # "call") => (pc = "panicked" /\ outcome = Panicked)
    /\ decoded.tag = "Err" => pc = "decoded"
    /\ (pc = "returned" /\ ret[1] # Zero) => outcome.tag = "Err"
    /\ (OnTarget /\ msg # None) => pc # "panicked"

C7_Witness ==
    /\ ~OnTarget
    /\ pc = "panicked"
    /\ msg = Sbi(BaseGetSpecVersion)
    /\ outcome = Panicked

\* a frame the composed decoder accepted as the memory-copy call is being
\* sent on, and its operands have been loaded
MemCopyForwarded ==
    /\ pc = "ecall"
    /\ Len(args) = 8
    /\ args[8] = U64(EXT_SALUS_TEST)
    /\ args[7] = Zero

\* C8 as stated: re-encoding the decoded memory-copy call gives back the
\* identical eight slots, for every accepted frame.
C8_ReencodeAny ==
    MemCopyForwarded => regs = args

\* C8 amended: re-encoding gives back the identical eight slots for every
\* accepted frame whose slots 3, 4 and 5 are zero.
C8_ReencodeZeroUnused ==
    ( /\ MemCopyForwarded
      /\ args[4] = Zero /\ args[5] = Zero /\ args[6] = Zero )
    => regs = args

C8_Witness ==
    /\ MemCopyForwarded
    /\ args = << U64(4096), U64(8192), U64(64), Zero, Zero, Zero, Zero,
                 U64(EXT_SALUS_TEST) >>
    /\ msg = Vendor(SalusTest(MemCopy(U64(4096), U64(8192), U64(64))))
    /\ regs = args

\* C9: memory-copy layout. MemCopy{to, from, len} encodes to slot0 = to,
\* slot1 = from, slot2 = len, slots 3-5 = 0, slot6 = 0, slot7 = 0x09FFFFFF,
\* and a frame with slot7 = 0x09FFFFFF and slot6 = 0 decodes to MemCopy with
\* to = slot0, from = slot1, len = slot2.
C9_Layout ==
    /\ (pc = "ecall" /\ msg.tag = "Vendor") =>
          regs = << msg.m.m.to, msg.m.m.from, msg.m.m.len, Zero, Zero, Zero,
                    Zero, U64(EXT_SALUS_TEST) >>
    /\ ( /\ ComposedDecoded
         /\ args[8] = U64(EXT_SALUS_TEST)
         /\ args[7] = Zero )
       => decoded = Ok(Vendor(SalusTest(MemCopy(args[1], args[2], args[3]))))
    /\ ( /\ pc = "decoded"
         /\ entry = "SalusTestFunction::from_regs"
         /\ args[7] = Zero )
       => decoded = Ok(MemCopy(args[1], args[2], args[3]))

C9_Witness ==
    /\ pc = "ecall"
    /\ args = <<>>
    /\ msg = Vendor(SalusTest(MemCopy(U64Max, U64(4096), Zero)))
    /\ regs = << U64Max, U64(4096), Zero, Zero, Zero, Zero, Zero,
                 U64(EXT_SALUS_TEST) >>

\* C10: the composed type forwards the eight accessors to the wrapped message
\* and nothing else: result(a0, a1) of a composed value is the default policy
\* for both variants, also where the wrapped message has a policy of its own.
C10_ForwardsSlotsOnly ==
    /\ (pc = "ecall" /\ msg.tag = "Sbi") =>
          \A i \in 0..7 : regs[i + 1] = SbiMessage_a(msg.m, i)
    /\ (pc = "ecall" /\ msg.tag = "Vendor") =>
          \A i \in 0..7 : regs[i + 1] = SalusExtension_a(msg.m, i)
    /\ pc = "returned" =>
          outcome = IF ret[1] = Zero THEN Ok(ret[2])
                    ELSE Err(Error_from_code(AsI64(ret[1])))

C10_Witness ==
    /\ pc = "returned"
    /\ msg = Sbi(PutChar(U64(65)))
    /\ ret = <<Zero, U64(42)>>
    /\ outcome = Ok(U64(42))
    /\ SbiMessage_result(msg.m, ret[1], ret[2]) # outcome

====
